---------------------------- MODULE Spec2Model ----------------------------
(***************************************************************************)
(* A model of Docs/Hex_Tool/hex_tool.cpp: the Intel HEX to raw binary      *)
(* extractor.  One run of main() is a state machine: the arguments and the *)
(* input file are fixed by Init, the record loop consumes one line per     *)
(* step, then the output vector is built, the output file is opened and    *)
(* written, and the CRC-32 of the vector is printed.                       *)
(*                                                                         *)
(* uint32_t values are pairs <<hi, lo>> of 16-bit halves (value =          *)
(* hi * 2^16 + lo), so that the 32-bit wrap of the code's arithmetic is    *)
(* kept although the checker's integers are narrower than 2^32.  A line of *)
(* text is a sequence of one-character strings.                            *)
(***************************************************************************)
EXTENDS Integers, Sequences, FiniteSets, TLC

VARIABLES
    file,                   \* the lines std::getline will deliver, in order
    startAddress,           \* argv[3], uint32_t
    bankSize,               \* argv[4], uint32_t
    endAddress,             \* startAddress + bankSize, uint32_t
    pc,                     \* position of main(): read, construct, openout, write,
                            \* or where it returned: no_data, no_output, done
                            \* (hash, hashed: crc32 applied on its own)
    lineNo,                 \* number of lines getline has delivered
    memoryMap,              \* std::map<uint32_t, uint8_t>
    extendedLinearAddress,  \* uint32_t
    warnings,               \* numbers of the lines reported on std::cerr
    binaryData,             \* std::vector<uint8_t>
    dataFoundInRange,       \* bool
    binFile,                \* the output file: opened or not, and its bytes
    crc,                    \* the printed hash, uint32_t
    exitCode                \* main's return value, -1 while running

vars == <<file, startAddress, bankSize, endAddress, pc, lineNo, memoryMap,
          extendedLinearAddress, warnings, binaryData, dataFoundInRange,
          binFile, crc, exitCode>>

---------------------------------------------------------------------------
(* Bounds of the model. *)

\* Longest input file, in lines.
MaxLines == 3

\* Longest byte sequence the checksum is applied to on its own.
MaxCrcLen == 3

---------------------------------------------------------------------------
(* 32-bit unsigned arithmetic on <<hi, lo>> pairs. *)

Half == 65536

\* The uint32_t of a number below 2^31.
U32(n) == <<n \div Half, n % Half>>

\* a + b in uint32_t: the carry out of bit 31 is dropped.
Add32(a, b) ==
    LET lo == a[2] + b[2]
    IN  <<(a[1] + b[1] + (lo \div Half)) % Half, lo % Half>>

Lt32(a, b) == a[1] < b[1] \/ (a[1] = b[1] /\ a[2] < b[2])

Ge32(a, b) == ~Lt32(a, b)

\* a - b in uint32_t (used where the difference is an index).
Sub32(a, b) ==
    LET lo == a[2] - b[2]
        borrow == IF lo < 0 THEN 1 ELSE 0
    IN  <<(a[1] - b[1] - borrow) % Half, lo % Half>>

\* The number a uint32_t stands for (for sizes and indices of the model).
ToNat(a) == a[1] * Half + a[2]

RECURSIVE Xor(_, _)
\* Bitwise exclusive or of two naturals.
Xor(a, b) ==
    IF a = 0 THEN b
    ELSE IF b = 0 THEN a
    ELSE ((a + b) % 2) + 2 * Xor(a \div 2, b \div 2)

Xor32(a, b) == <<Xor(a[1], b[1]), Xor(a[2], b[2])>>

\* a >> 1 in uint32_t.
Shr32(a) == <<a[1] \div 2, (a[2] \div 2) + (a[1] % 2) * (Half \div 2)>>

---------------------------------------------------------------------------
(* The checksum. *)

\* 0xEDB88320
POLYNOMIAL == <<60856, 33568>>

AllOnes32 == <<65535, 65535>>

RECURSIVE CrcBits(_, _)
\* The inner loop: j remaining of the 8 shift steps.
CrcBits(c, j) ==
    IF j = 0 THEN c
    ELSE IF c[2] % 2 = 1
         THEN CrcBits(Xor32(Shr32(c), POLYNOMIAL), j - 1)
         ELSE CrcBits(Shr32(c), j - 1)

RECURSIVE CrcBytes(_, _, _)
\* The outer loop over data[k..].  The register is evaluated once per byte
\* (the test on it always holds: it is a uint32_t).
CrcBytes(c, data, k) ==
    IF k > Len(data) THEN c
    ELSE LET n == CrcBits(Xor32(c, <<0, data[k]>>), 8)
         IN  IF n[1] < Half THEN CrcBytes(n, data, k + 1) ELSE n

\* A slip: the final complement is left out.
crc32_NoFinalXor(data) == CrcBytes(AllOnes32, data, 1)

crc32(data) == Xor32(CrcBytes(AllOnes32, data, 1), AllOnes32)

---------------------------------------------------------------------------
(* std::string::substr and std::stoi, as the record loop uses them. *)

\* The base-16 digits and their values.
HexDigits ==
    [c \in {"0", "1", "2", "3", "4", "5", "6", "7", "8", "9"} |->
        CASE c = "0" -> 0 [] c = "1" -> 1 [] c = "2" -> 2 [] c = "3" -> 3
          [] c = "4" -> 4 [] c = "5" -> 5 [] c = "6" -> 6 [] c = "7" -> 7
          [] c = "8" -> 8 [] c = "9" -> 9]
    @@ [c \in {"A", "B", "C", "D", "E", "F"} |->
        CASE c = "A" -> 10 [] c = "B" -> 11 [] c = "C" -> 12
          [] c = "D" -> 13 [] c = "E" -> 14 [] c = "F" -> 15]
    @@ [c \in {"a", "b", "c", "d", "e", "f"} |->
        CASE c = "a" -> 10 [] c = "b" -> 11 [] c = "c" -> 12
          [] c = "d" -> 13 [] c = "e" -> 14 [] c = "f" -> 15]

\* The value of a base-16 digit, -1 for any other character.
DigitVal(c) == IF c \in DOMAIN HexDigits THEN HexDigits[c] ELSE -1

IsSpace(c) == c \in {" ", "\t", "\r", "\f"}

Threw == [ok |-> FALSE, val |-> 0]

\* s.substr(pos, n): throws std::out_of_range when pos > size(), otherwise
\* the at most n characters from pos on (pos counts from 0).
substr(s, pos, n) ==
    IF pos > Len(s) THEN [ok |-> FALSE, val |-> <<>>]
    ELSE [ok |-> TRUE,
          val |-> SubSeq(s, pos + 1, IF pos + n < Len(s) THEN pos + n ELSE Len(s))]

RECURSIVE SkipSpace(_, _)
SkipSpace(s, p) ==
    IF p <= Len(s) /\ IsSpace(s[p]) THEN SkipSpace(s, p + 1) ELSE p

RECURSIVE Digits(_, _, _, _)
\* The longest run of base-16 digits from p on: [n |-> digits read, val |-> value].
Digits(s, p, n, acc) ==
    IF p <= Len(s) /\ DigitVal(s[p]) >= 0
    THEN Digits(s, p + 1, n + 1, acc * 16 + DigitVal(s[p]))
    ELSE [n |-> n, val |-> acc]

\* std::stoi(s, nullptr, 16): strtol's grammar (white space, an optional sign,
\* an optional 0x, then digits up to the first character that is none);
\* throws std::invalid_argument when no digit was read.  The argument has at
\* most 4 characters, so the value is always in int's range.
stoi(s) ==
    LET p0 == SkipSpace(s, 1)
        signed == p0 <= Len(s) /\ s[p0] \in {"+", "-"}
        neg == signed /\ s[p0] = "-"
        p1 == IF signed THEN p0 + 1 ELSE p0
        prefixed == /\ p1 + 2 <= Len(s)
                    /\ s[p1] = "0"
                    /\ s[p1 + 1] \in {"x", "X"}
                    /\ DigitVal(s[p1 + 2]) >= 0
        p2 == IF prefixed THEN p1 + 2 ELSE p1
        d == Digits(s, p2, 0, 0)
    IN  IF d.n = 0 THEN Threw
        ELSE [ok |-> TRUE, val |-> IF neg THEN 0 - d.val ELSE d.val]

\* std::stoi(line.substr(pos, n), nullptr, 16)
Field(line, pos, n) ==
    LET s == substr(line, pos, n)
    IN  IF s.ok THEN stoi(s.val) ELSE Threw

---------------------------------------------------------------------------
(* The body of the record loop. *)

EmptyMap == [a \in {} |-> 0]

\* memoryMap[byteAddress] = byteValue
MapStore(m, a, v) ==
    [x \in (DOMAIN m) \cup {a} |-> IF x = a THEN v ELSE m[x]]

\* byteAddress >= startAddress && byteAddress < endAddress
InWindow(a, start, end) == Ge32(a, start) /\ Lt32(a, end)

RECURSIVE StoreBytes(_, _, _, _, _, _, _)
\* The loop over the payload of a data record, from byte i on: the map it
\* leaves, and whether a substr or stoi threw on the way.
StoreBytes(line, currentAddress, i, byteCount, m, start, end) ==
    IF i >= byteCount THEN [map |-> m, threw |-> FALSE]
    ELSE LET byteAddress == Add32(currentAddress, <<0, i>>)
         IN  IF InWindow(byteAddress, start, end)
             THEN LET f == Field(line, 9 + i * 2, 2)
                  IN  IF ~f.ok THEN [map |-> m, threw |-> TRUE]
                      ELSE StoreBytes(line, currentAddress, i + 1, byteCount,
                                      MapStore(m, byteAddress, f.val % 256),
                                      start, end)
             ELSE StoreBytes(line, currentAddress, i + 1, byteCount, m, start, end)

\* A slip: the upper half is not shifted into place.
ShiftedUpper_NoShift(upperAddress) == <<0, upperAddress>>

\* upperAddress << 16
ShiftedUpper(upperAddress) == <<upperAddress, 0>>

\* A slip: the end of file record is looked for under the wrong type code.
IsEndOfFile_WrongType(recordType) == recordType = 5

\* recordType == 0x01
IsEndOfFile(recordType) == recordType = 1

Outcome(m, ela, brk, threw) ==
    [map |-> m, ela |-> ela, brk |-> brk, threw |-> threw]

\* The try block for one candidate line: the map and the base it leaves,
\* whether it reached the break, and whether the catch clause ran.
ProcessRecord(line, m, ela, start, end) ==
    LET fCount == Field(line, 1, 2)
        fOffset == Field(line, 3, 4)
        fType == Field(line, 7, 2)
        byteCount == fCount.val % 256
        addressOffset == fOffset.val % Half
        recordType == fType.val % 256
    IN  IF ~fCount.ok \/ ~fOffset.ok \/ ~fType.ok THEN Outcome(m, ela, FALSE, TRUE)
        ELSE IF recordType = 4
        THEN LET fUpper == Field(line, 9, 4)
             IN  IF ~fUpper.ok THEN Outcome(m, ela, FALSE, TRUE)
                 ELSE Outcome(m, ShiftedUpper(fUpper.val % Half), FALSE, FALSE)
        ELSE IF recordType = 0
        THEN LET r == StoreBytes(line, Add32(ela, <<0, addressOffset>>), 0,
                                 byteCount, m, start, end)
             IN  Outcome(r.map, ela, FALSE, r.threw)
        ELSE IF IsEndOfFile(recordType) THEN Outcome(m, ela, TRUE, FALSE)
        ELSE Outcome(m, ela, FALSE, FALSE)

\* line.empty() || line[0] != ':'
NotCandidate(line) == Len(line) = 0 \/ line[1] # ":"

\* One iteration of the while loop on `line`.
ProcessLine(line, m, ela, start, end) ==
    IF NotCandidate(line) THEN Outcome(m, ela, FALSE, FALSE)
    ELSE ProcessRecord(line, m, ela, start, end)

---------------------------------------------------------------------------
(* Building the output vector. *)

EraseValue == 255

\* A slip: the vector is filled with zeros.
BuildBinary_ZeroFill(m, start, size, end) ==
    [i \in 1..ToNat(size) |->
        IF \E a \in DOMAIN m : InWindow(a, start, end) /\ Sub32(a, start) = U32(i - 1)
        THEN m[CHOOSE a \in DOMAIN m :
                  InWindow(a, start, end) /\ Sub32(a, start) = U32(i - 1)]
        ELSE 0]

\* The entries of the map that pass the range test of the copy loop.
InRangeKeys(m, start, end) == {a \in DOMAIN m : InWindow(a, start, end)}

\* std::vector<uint8_t> binaryData(bankSize, 0xFF), then
\* binaryData[address - startAddress] = pair.second for each in-range entry.
BuildBinary(m, start, size, end) ==
    LET keys == InRangeKeys(m, start, end)
    IN  [i \in 1..ToNat(size) |->
            IF \E a \in keys : Sub32(a, start) = U32(i - 1)
            THEN m[CHOOSE a \in keys : Sub32(a, start) = U32(i - 1)]
            ELSE EraseValue]

---------------------------------------------------------------------------
(* The inputs of the model: the lines a file is made of, and the windows. *)

\* an extended linear address record, upper half 0x0800
L_ELA08 == ":020000040800F2"
\* an extended linear address record, upper half 0xFFFF
L_ELAFF == ":02000004FFFFFC"
\* data DE AD BE EF at offset 0x0000
L_DATA4 == ":04000000DEADBEEFC4"
\* data 11 22 at offset 0x0003
L_DATA2 == ":020003001122C8"
\* data AA BB at offset 0x0010
L_DATA10 == ":02001000AABB89"
\* data A1 A2 A3 A4 at offset 0xFFFC
L_DATAHI == ":04FFFC00A1A2A3A477"
\* data 5A at offset 0xFFFE
L_DATAHI2 == ":01FFFE005AA8"
\* the end of file record
L_TERM == ":00000001FF"
\* a start linear address record (type 05)
L_OTHER == ":0400000508000131BD"
\* a data line whose third payload group is not hex
L_BADMID == ":04000000DEADGGEF00"
\* a data line cut in the middle of its one payload group
L_SHORT == ":01000000A"
\* the empty line
L_EMPTY == ""

LineSet == {L_ELA08, L_ELAFF, L_DATA4, L_DATA2, L_DATA10, L_DATAHI, L_DATAHI2,
            L_TERM, L_OTHER, L_BADMID, L_SHORT, L_EMPTY}

\* The characters of a line of LineSet (a string cannot be indexed).
Chars(line) ==
    CASE line = L_ELA08 ->
            <<":", "0", "2", "0", "0", "0", "0", "0", "4", "0", "8", "0", "0", "F", "2">>
      [] line = L_ELAFF ->
            <<":", "0", "2", "0", "0", "0", "0", "0", "4", "F", "F", "F", "F", "F", "C">>
      [] line = L_DATA4 ->
            <<":", "0", "4", "0", "0", "0", "0", "0", "0", "D", "E", "A", "D", "B", "E", "E", "F", "C", "4">>
      [] line = L_DATA2 ->
            <<":", "0", "2", "0", "0", "0", "3", "0", "0", "1", "1", "2", "2", "C", "8">>
      [] line = L_DATA10 ->
            <<":", "0", "2", "0", "0", "1", "0", "0", "0", "A", "A", "B", "B", "8", "9">>
      [] line = L_DATAHI ->
            <<":", "0", "4", "F", "F", "F", "C", "0", "0", "A", "1", "A", "2", "A", "3", "A", "4", "7", "7">>
      [] line = L_DATAHI2 ->
            <<":", "0", "1", "F", "F", "F", "E", "0", "0", "5", "A", "A", "8">>
      [] line = L_TERM ->
            <<":", "0", "0", "0", "0", "0", "0", "0", "1", "F", "F">>
      [] line = L_OTHER ->
            <<":", "0", "4", "0", "0", "0", "0", "0", "5", "0", "8", "0", "0", "0", "1", "3", "1", "B", "D">>
      [] line = L_BADMID ->
            <<":", "0", "4", "0", "0", "0", "0", "0", "0", "D", "E", "A", "D", "G", "G", "E", "F", "0", "0">>
      [] line = L_SHORT ->
            <<":", "0", "1", "0", "0", "0", "0", "0", "0", "A">>
      [] line = L_EMPTY ->
            <<>>

Files == UNION {[1..n -> LineSet] : n \in 0..MaxLines}

\* 0x08000000, 0x11
W_LOW == [start |-> <<2048, 0>>, size |-> <<0, 17>>]
\* 0xFFFFFFFC, 4: the window that ends with the address space
W_TOP == [start |-> <<65535, 65532>>, size |-> <<0, 4>>]
\* 0xFFFFFFFE, 4: start + size exceeds 2^32
W_OVER == [start |-> <<65535, 65534>>, size |-> <<0, 4>>]

Windows == {W_LOW, W_TOP, W_OVER}

---------------------------------------------------------------------------
(* main() *)

NoFile == [opened |-> FALSE, bytes |-> <<>>]

\* The state when main() has parsed its arguments (lines 69-73), opened the
\* input (lines 76-80) and declared the loop's variables (lines 82-84).
Init ==
    /\ file \in Files
    /\ \E w \in Windows :
          /\ startAddress = w.start
          /\ bankSize = w.size
          /\ endAddress = Add32(w.start, w.size)
    /\ pc = "read"
    /\ lineNo = 0
    /\ memoryMap = EmptyMap
    /\ extendedLinearAddress = <<0, 0>>
    /\ warnings = {}
    /\ binaryData = <<>>
    /\ dataFoundInRange = FALSE
    /\ binFile = NoFile
    /\ crc = <<0, 0>>
    /\ exitCode = -1

\* One iteration of while (std::getline(hexFile, line)).
ReadLine ==
    /\ pc = "read"
    /\ lineNo < Len(file)
    /\ LET r == ProcessLine(Chars(file[lineNo + 1]), memoryMap,
                            extendedLinearAddress, startAddress, endAddress)
       IN  /\ lineNo' = lineNo + 1
           /\ memoryMap' = r.map
           /\ extendedLinearAddress' = r.ela
           /\ warnings' = IF r.threw THEN warnings \cup {lineNo + 1} ELSE warnings
           /\ pc' = IF r.brk THEN "construct" ELSE "read"
    /\ UNCHANGED <<file, startAddress, bankSize, endAddress, binaryData,
                   dataFoundInRange, binFile, crc, exitCode>>

\* std::getline fails: the input is exhausted.
EndOfInput ==
    /\ pc = "read"
    /\ lineNo = Len(file)
    /\ pc' = "construct"
    /\ UNCHANGED <<file, startAddress, bankSize, endAddress, lineNo, memoryMap,
                   extendedLinearAddress, warnings, binaryData,
                   dataFoundInRange, binFile, crc, exitCode>>

\* Step 3: build binaryData; "No data found" ends the run with status 1.
Construct ==
    /\ pc = "construct"
    /\ binaryData' = BuildBinary(memoryMap, startAddress, bankSize, endAddress)
    /\ dataFoundInRange' = (InRangeKeys(memoryMap, startAddress, endAddress) # {})
    /\ IF dataFoundInRange'
       THEN pc' = "openout" /\ exitCode' = exitCode
       ELSE pc' = "no_data" /\ exitCode' = 1
    /\ UNCHANGED <<file, startAddress, bankSize, endAddress, lineNo, memoryMap,
                   extendedLinearAddress, warnings, binFile, crc>>

\* std::ofstream binFile(binFilePath, std::ios::binary): open (and truncate),
\* or "Could not create output file".
OpenOutput ==
    /\ pc = "openout"
    /\ \/ pc' = "write" /\ binFile' = [opened |-> TRUE, bytes |-> <<>>]
          /\ exitCode' = exitCode
       \/ pc' = "no_output" /\ binFile' = binFile /\ exitCode' = 1
    /\ UNCHANGED <<file, startAddress, bankSize, endAddress, lineNo, memoryMap,
                   extendedLinearAddress, warnings, binaryData,
                   dataFoundInRange, crc>>

\* Steps 4 and 5: binFile.write, crc32(binaryData), return 0.
WriteAndHash ==
    /\ pc = "write"
    /\ binFile' = [opened |-> TRUE, bytes |-> binaryData]
    /\ crc' = crc32(binaryData)
    /\ pc' = "done"
    /\ exitCode' = 0
    /\ UNCHANGED <<file, startAddress, bankSize, endAddress, lineNo, memoryMap,
                   extendedLinearAddress, warnings, binaryData,
                   dataFoundInRange>>

Next ==
    \/ ReadLine
    \/ EndOfInput
    \/ Construct
    \/ OpenOutput
    \/ WriteAndHash

Spec == Init /\ [][Next]_vars

---------------------------------------------------------------------------
(* The record format, read independently of the code's parsing: what the   *)
(* properties below call a record, its fields, and the bytes a file's      *)
(* records describe.  Addresses are 32-bit, as in the format.              *)

IsCandidate(line) == Len(line) > 0 /\ line[1] = ":"

\* The byte written as the two hex characters at 0-based positions pos, pos+1.
RecByteAt(line, pos) == DigitVal(line[pos + 1]) * 16 + DigitVal(line[pos + 2])

\* A well-formed record: the marker, then hex digits only, and exactly the
\* header, the declared payload and the trailing checksum byte.
IsRecord(line) ==
    /\ Len(line) >= 11
    /\ line[1] = ":"
    /\ \A i \in 2..Len(line) : DigitVal(line[i]) >= 0
    /\ Len(line) = 11 + 2 * RecByteAt(line, 1)

RecCount(line) == RecByteAt(line, 1)
RecOffset(line) == RecByteAt(line, 3) * 256 + RecByteAt(line, 5)
RecType(line) == RecByteAt(line, 7)
RecPayload(line, i) == RecByteAt(line, 9 + 2 * i)

IsData(line) == IsRecord(line) /\ RecType(line) = 0
IsTerminator(line) == IsRecord(line) /\ RecType(line) = 1
IsHighAddress(line) == IsRecord(line) /\ RecType(line) = 4 /\ RecCount(line) >= 2

\* The base an Extended-High-Address record announces.
RecBase(line) == <<RecPayload(line, 0) * 256 + RecPayload(line, 1), 0>>

\* A candidate line that is no record.
IsMalformed(line) == IsCandidate(line) /\ ~IsRecord(line)

\* Every candidate line of f is a record.
RecordsOnly(f) == \A k \in 1..Len(f) : ~IsMalformed(Chars(f[k]))

\* The number of the first Terminator record of f, Len(f) + 1 when it has none.
FirstTerminator(f) ==
    LET ends == {k \in 1..Len(f) : IsTerminator(Chars(f[k]))}
    IN  IF ends = {} THEN Len(f) + 1
        ELSE CHOOSE k \in ends : \A j \in ends : k <= j

\* The base in force at line k: that of the last Extended-High-Address record
\* before it, 0 when there is none.
BaseAt(f, k) ==
    LET before == {j \in 1..(k - 1) : IsHighAddress(Chars(f[j]))}
    IN  IF before = {} THEN <<0, 0>>
        ELSE RecBase(Chars(f[CHOOSE j \in before : \A h \in before : h <= j]))

\* The bytes the Data records before the first Terminator describe.
RecWrites(f) ==
    UNION {{[line |-> k, byte |-> i,
             addr |-> Add32(Add32(BaseAt(f, k), <<0, RecOffset(Chars(f[k]))>>),
                            <<0, i>>),
             val |-> RecPayload(Chars(f[k]), i)] :
                i \in 0..(RecCount(Chars(f[k])) - 1)} :
           k \in {h \in 1..(FirstTerminator(f) - 1) : IsData(Chars(f[h]))}}

\* w is processed after v.
Later(w, v) == w.line > v.line \/ (w.line = v.line /\ w.byte > v.byte)

\* start + size <= 2^32
NoOverflow(start, size) ==
    LET lo == start[2] + size[2]
        hi == start[1] + size[1] + (lo \div Half)
    IN  hi < Half \/ (hi = Half /\ lo % Half = 0)

\* a lies in [start, start + size), the sum not reduced modulo 2^32.
InTarget(a, start, size) == Ge32(a, start) /\ Lt32(Sub32(a, start), size)

\* The index of address a in the Output Buffer, counted from 1.
IndexOf(a, start) == ToNat(Sub32(a, start)) + 1

\* binaryData has been built.
Constructed == pc \in {"no_data", "openout", "write", "no_output", "done"}

---------------------------------------------------------------------------
(* The record loop and the extraction as one function of the file. *)

RECURSIVE RunFrom(_, _, _, _, _, _)
\* The while loop from line k on: the map and the base it ends with.
RunFrom(f, k, m, ela, start, end) ==
    IF k > Len(f) THEN [map |-> m, ela |-> ela]
    ELSE LET r == ProcessLine(Chars(f[k]), m, ela, start, end)
         IN  IF r.brk THEN [map |-> r.map, ela |-> r.ela]
             ELSE RunFrom(f, k + 1, r.map, r.ela, start, end)

\* The vector main() builds for file f.
OutputOf(f, start, size, end) ==
    BuildBinary(RunFrom(f, 1, EmptyMap, <<0, 0>>, start, end).map, start, size, end)

\* f with lines i and j exchanged.
Swap(f, i, j) ==
    [k \in 1..Len(f) |-> IF k = i THEN f[j] ELSE IF k = j THEN f[i] ELSE f[k]]

---------------------------------------------------------------------------
(* Properties. *)

\* The writes of file that are alone in targeting their address.
Unshared(w) == \A v \in RecWrites(file) : v.addr = w.addr => v = w

\* Adjacent Data records before the first Terminator, under the same base and
\* with no address in common.
DisjointNeighbours(k) ==
    /\ k + 1 < FirstTerminator(file)
    /\ IsData(Chars(file[k])) /\ IsData(Chars(file[k + 1]))
    /\ BaseAt(file, k) = BaseAt(file, k + 1)
    /\ \A w, v \in RecWrites(file) :
          (w.line = k /\ v.line = k + 1) => w.addr # v.addr

\* C1: for a file of valid records and a window with start + size <= 2^32,
\* every payload byte of a Data record before the first Terminator whose
\* address lies in the window, and which no other record byte targets, is
\* the Output Buffer byte at that address; and exchanging two neighbouring
\* Data records of the same base and disjoint addresses leaves the Output
\* Buffer as it is.
C1_PayloadReachesBuffer ==
    (Constructed /\ RecordsOnly(file) /\ NoOverflow(startAddress, bankSize)) =>
        /\ \A w \in RecWrites(file) :
              (InTarget(w.addr, startAddress, bankSize) /\ Unshared(w)) =>
                  binaryData[IndexOf(w.addr, startAddress)] = w.val
        /\ \A k \in 1..(Len(file) - 1) :
              DisjointNeighbours(k) =>
                  OutputOf(Swap(file, k, k + 1), startAddress, bankSize,
                           endAddress) = binaryData

\* C2: last write wins.  For a file of valid records and a window with
\* start + size <= 2^32, an address of the window that several Data record
\* bytes before the first Terminator target holds, in the Output Buffer, the
\* value of the byte processed last.
C2_LastWriteWins ==
    (Constructed /\ RecordsOnly(file) /\ NoOverflow(startAddress, bankSize)) =>
        \A w \in RecWrites(file) :
            (/\ InTarget(w.addr, startAddress, bankSize)
             /\ \E v \in RecWrites(file) : v.addr = w.addr /\ v.val # w.val
             /\ \A v \in RecWrites(file) : v.addr = w.addr => ~Later(v, w)) =>
                binaryData[IndexOf(w.addr, startAddress)] = w.val

\* The addresses a byte was stored for: by the records of the file when the
\* file holds records only, by the data branch of the loop in any case.
WrittenAddrs ==
    IF RecordsOnly(file)
    THEN {w.addr : w \in {v \in RecWrites(file) :
                             InTarget(v.addr, startAddress, bankSize)}}
    ELSE DOMAIN memoryMap

\* C3: once built, the Output Buffer has exactly bankSize bytes; on a
\* successful run the file written is that buffer, and every index whose
\* address no in-range Data record byte was stored for holds 0xFF.
C3_SizeAndPadding ==
    /\ Constructed => Len(binaryData) = ToNat(bankSize)
    /\ pc = "done" =>
          /\ binFile = [opened |-> TRUE, bytes |-> binaryData]
          /\ LET written == WrittenAddrs
             IN  \A i \in 1..ToNat(bankSize) :
                    (Add32(startAddress, U32(i - 1)) \notin written
                     \/ Add32(startAddress, U32(i - 1)) \notin DOMAIN memoryMap) =>
                        binaryData[i] = 255

\* A successful run whose window is covered in part: DE AD BE EF at the
\* first four indices, padding after them.
C3_Witness ==
    /\ pc = "done"
    /\ file = <<L_ELA08, L_DATA4>>
    /\ SubSeq(binaryData, 1, 5) = <<222, 173, 190, 239, 255>>
    /\ binaryData[17] = 255

\* The window ends below the top of the address space (start + size < 2^32).
BelowTop ==
    NoOverflow(startAddress, bankSize) /\ Lt32(startAddress, endAddress)

\* C1 and C2 for the windows that end below the top of the address space.
C1_BelowTop == BelowTop => C1_PayloadReachesBuffer

C2_BelowTop == BelowTop => C2_LastWriteWins

\* The file up to and including its first Terminator record.
UpToTerminator ==
    IF FirstTerminator(file) > Len(file) THEN file
    ELSE SubSeq(file, 1, FirstTerminator(file))

\* The file has lines after its first Terminator record.
LinesAfterTerminator == FirstTerminator(file) < Len(file)

\* A Terminator record has been processed.
Terminated == lineNo >= FirstTerminator(file)

\* C4: the loop never reads past the first Terminator record; from then on
\* the Memory Map and the base are those the lines up to the Terminator
\* left, and the Output Buffer and the checksum are those of the file cut
\* after its first Terminator.
C4_TerminatorHalts ==
    /\ lineNo <= FirstTerminator(file)
    /\ Terminated =>
          /\ pc # "read"
          /\ LET r == RunFrom(UpToTerminator, 1, EmptyMap, <<0, 0>>,
                              startAddress, endAddress)
             IN  memoryMap = r.map /\ extendedLinearAddress = r.ela
    /\ (Constructed /\ LinesAfterTerminator) =>
          binaryData = OutputOf(UpToTerminator, startAddress, bankSize, endAddress)
    /\ (pc = "done" /\ LinesAfterTerminator) =>
          crc = crc32(OutputOf(UpToTerminator, startAddress, bankSize, endAddress))

\* A run that stopped reading at the Terminator, the line after it a Data
\* record whose bytes lie in the window: it ends with nothing found.
C4_Witness ==
    /\ file = <<L_ELA08, L_TERM, L_DATA4>>
    /\ startAddress = W_LOW.start
    /\ lineNo = 2
    /\ pc = "no_data"
    /\ memoryMap = EmptyMap

\* Some Data record byte before the first Terminator lies in the window.
WindowHit ==
    \E w \in RecWrites(file) : InTarget(w.addr, startAddress, bankSize)

\* C5: for a file of valid records and a window with start + size <= 2^32,
\* when no Data record byte lies in the window the run ends with status 1
\* before the output file is opened, and when one does the run does not end
\* with the emptiness error.
C5_EmptinessIsFatal ==
    (RecordsOnly(file) /\ NoOverflow(startAddress, bankSize)) =>
        /\ (Constructed /\ ~WindowHit) =>
              (pc = "no_data" /\ exitCode = 1 /\ ~binFile.opened)
        /\ WindowHit => pc # "no_data"

C5_BelowTop == BelowTop => C5_EmptinessIsFatal

\* C6: a window with start + size > 2^32 is rejected before any record is
\* folded: the loop reads no line.
C6_OverflowRejected ==
    ~NoOverflow(startAddress, bankSize) => lineNo = 0

\* The lines C7 expects a parse failure for: a candidate line too short for
\* its header or for the payload its byte count declares, or with a
\* character that is no hex digit in the header or in the declared payload.
MustFail(line) ==
    /\ IsCandidate(line)
    /\ \/ Len(line) < 9
       \/ \E i \in 2..9 : DigitVal(line[i]) < 0
       \/ Len(line) < 9 + 2 * RecByteAt(line, 1)
       \/ \E i \in 10..(9 + 2 * RecByteAt(line, 1)) : DigitVal(line[i]) < 0

\* C7: every such line that the loop has read was reported as a parse
\* failure, wherever its payload lies.
C7_FailuresDetected ==
    \A k \in 1..lineNo : MustFail(Chars(file[k])) => k \in warnings

\* The lines read so far, those reported as parse failures left out.
RECURSIVE ReadWithoutFailures(_)
ReadWithoutFailures(k) ==
    IF k = 0 THEN <<>>
    ELSE IF k \in warnings THEN ReadWithoutFailures(k - 1)
    ELSE Append(ReadWithoutFailures(k - 1), file[k])

\* C8: a line reported as a parse failure leaves no trace: the Memory Map
\* and the base are those of the lines read with the failing ones left out,
\* and the run goes on.
C8_FailureIsLocal ==
    /\ LET r == RunFrom(ReadWithoutFailures(lineNo), 1, EmptyMap, <<0, 0>>,
                        startAddress, endAddress)
       IN  memoryMap = r.map /\ extendedLinearAddress = r.ela
    /\ (lineNo \in warnings /\ lineNo < Len(file)) => pc = "read"

\* The map m with the in-window payload bytes of Data record `line` stored
\* over it, the record taken under base `ela`.
RECURSIVE Placed(_, _, _, _)
Placed(line, m, ela, i) ==
    IF i >= RecCount(line) THEN m
    ELSE LET a == Add32(Add32(ela, <<0, RecOffset(line)>>), <<0, i>>)
         IN  Placed(line,
                    IF InWindow(a, startAddress, endAddress)
                    THEN [x \in (DOMAIN m) \cup {a} |->
                            IF x = a THEN RecPayload(line, i) ELSE m[x]]
                    ELSE m,
                    ela, i + 1)

\* What one step of the loop on a record must do to the base and the map.
HighAddressStep(line) ==
    /\ IsHighAddress(line) =>
          /\ extendedLinearAddress' = RecBase(line)
          /\ memoryMap' = memoryMap
    /\ (IsRecord(line) /\ RecType(line) # 4) =>
          extendedLinearAddress' = extendedLinearAddress
    /\ ~IsCandidate(line) =>
          extendedLinearAddress' = extendedLinearAddress
    /\ IsData(line) =>
          memoryMap' = Placed(line, memoryMap, extendedLinearAddress, 0)

\* C10: the base starts at 0; an Extended-High-Address record replaces it by
\* its first two payload bytes (big-endian) times 2^16 and leaves the Memory
\* Map alone; no other record kind changes it; a Data record stores byte i
\* at base + offset + i; so in a file of records the base in force is that
\* of the most recent Extended-High-Address record.
C10_HighAddressBase ==
    /\ [](lineNo = 0 => extendedLinearAddress = <<0, 0>>)
    /\ [][lineNo' = lineNo + 1 => HighAddressStep(Chars(file[lineNo + 1]))]_vars
    /\ []((pc = "read" /\ RecordsOnly(SubSeq(file, 1, lineNo))) =>
             extendedLinearAddress = BaseAt(file, lineNo + 1))

\* 0xFFFF0000 replaced by 0x08000000, then AA stored at 0x08000010.
C10_Witness ==
    /\ file = <<L_ELAFF, L_ELA08, L_DATA10>>
    /\ lineNo = 3
    /\ extendedLinearAddress = <<2048, 0>>
    /\ memoryMap = [a \in {<<2048, 16>>} |-> 170]

---------------------------------------------------------------------------
(* The checksum on its own: crc32 applied to a byte vector. *)

\* The ASCII bytes of "123456789".
Check123 == <<49, 50, 51, 52, 53, 54, 55, 56, 57>>

CrcByteSet == {0, 1, 49, 128, 255}

CrcInputs ==
    UNION {[1..n -> CrcByteSet] : n \in 0..MaxCrcLen} \cup {Check123}

InitCrc ==
    /\ binaryData \in CrcInputs
    /\ pc = "hash"
    /\ file = <<>>
    /\ startAddress = <<0, 0>>
    /\ bankSize = <<0, 0>>
    /\ endAddress = <<0, 0>>
    /\ lineNo = 0
    /\ memoryMap = EmptyMap
    /\ extendedLinearAddress = <<0, 0>>
    /\ warnings = {}
    /\ dataFoundInRange = FALSE
    /\ binFile = NoFile
    /\ crc = <<0, 0>>
    /\ exitCode = -1

\* uint32_t crc = crc32(binaryData)
CrcApply ==
    /\ pc = "hash"
    /\ crc' = crc32(binaryData)
    /\ pc' = "hashed"
    /\ UNCHANGED <<file, startAddress, bankSize, endAddress, lineNo, memoryMap,
                   extendedLinearAddress, warnings, binaryData,
                   dataFoundInRange, binFile, exitCode>>

NextCrc == CrcApply

SpecCrc == InitCrc /\ [][NextCrc]_vars

(* CRC-32/ISO-HDLC from its parameters (width 32, poly 0x04C11DB7, init     *)
(* 0xFFFFFFFF, refin, refout, xorout 0xFFFFFFFF), computed most significant *)
(* bit first on a register of 32 bits, bit 1 the most significant.          *)

\* The 16 bits of n, most significant first.
Bits16(n) == [i \in 1..16 |-> (n \div (2 ^ (16 - i))) % 2]

\* 0x04C11DB7
RefPoly == Bits16(1217) \o Bits16(7607)

\* One message bit b shifted into the register.
RefShift(reg, b) ==
    LET top == (reg[1] + b) % 2
        shifted == Append(Tail(reg), 0)
    IN  [i \in 1..32 |-> (shifted[i] + top * RefPoly[i]) % 2]

RECURSIVE RefByte(_, _, _)
\* The bits of `byte` shifted in, least significant first (refin), from bit j.
RefByte(reg, byte, j) ==
    IF j = 8 THEN reg
    ELSE LET r == RefShift(reg, (byte \div (2 ^ j)) % 2)
         IN  IF Len(Tail(r)) = 31 THEN RefByte(r, byte, j + 1) ELSE r

RECURSIVE RefBytes(_, _, _)
RefBytes(reg, data, k) ==
    IF k > Len(data) THEN reg
    ELSE LET r == RefByte(reg, data[k], 0)
         IN  IF Len(Tail(r)) = 31 THEN RefBytes(r, data, k + 1) ELSE r

RECURSIVE BitsValue(_, _, _)
\* The number bits[from..to] spell, most significant first.
BitsValue(bits, from, to) ==
    IF from > to THEN 0
    ELSE 2 * BitsValue(bits, from, to - 1) + bits[to]

\* The register reflected (refout), complemented (xorout), as <<hi, lo>>.
RefCrc32(data) ==
    LET reg == RefBytes([i \in 1..32 |-> 1], data, 1)
        out == [i \in 1..32 |-> 1 - reg[33 - i]]
    IN  <<BitsValue(out, 1, 16), BitsValue(out, 17, 32)>>

\* C9: the hash crc32 returns is the CRC-32/ISO-HDLC of the bytes: it agrees
\* with the reference on every input, is 0x00000000 on the empty sequence
\* and 0xCBF43926 on the ASCII bytes "123456789".
C9_Crc32 ==
    pc = "hashed" =>
        /\ crc = RefCrc32(binaryData)
        /\ binaryData = <<>> => crc = <<0, 0>>
        /\ binaryData = Check123 => crc = <<52212, 14630>>

C9_Witness ==
    pc = "hashed" /\ binaryData = Check123 /\ crc = <<52212, 14630>>

===========================================================================
